---- MODULE Spec2Model ----
(***************************************************************************)
(* A model of grudge/array_context.py: the module-level import probe, the  *)
(* array context classes and their constructors, clone(), the distributed  *)
(* lazy compilation (_dag_to_compiled_func), calls of a compiled function, *)
(* and the factory get_reasonable_array_context_class.                     *)
(***************************************************************************)
EXTENDS Integers, Sequences, FiniteSets, TLC

\* ------------------------------------------------------------------ bounds

MaxFactoryCalls == 3
MaxCtx == 2
MaxInitialBaseTag == 1
MaxCompiles == 2

\* ------------------------------------------------------------ plain values

None == "None"
Unbound == "<unbound>"
Unset == "<unset>"

MismatchWarning == "Your loopy and meshmode branches are mismatched."
NoAllocatorWarning == "No memory allocator specified, please pass one."
NoDeviceParallelWarning == "No device-parallel actx available, execution will be slow."

\* ---------------------------------------------------------------- classes

\* meshmode's classes (imported, lines 38-40 and 50)
MeshmodePyOpenCLBase == "_PyOpenCLArrayContextBase"
MeshmodePytatoBase == "_PytatoPyOpenCLArrayContextBase"
SingleGridWorkBalancingPytatoArrayContext == "SingleGridWorkBalancingPytatoArrayContext"

\* this module's classes
PyOpenCLArrayContext == "PyOpenCLArrayContext"
PytatoPyOpenCLArrayContext == "PytatoPyOpenCLArrayContext"
MPIBasedArrayContext == "MPIBasedArrayContext"
MPIPytatoArrayContextBase == "MPIPytatoArrayContextBase"
MPIPyOpenCLArrayContext == "MPIPyOpenCLArrayContext"
MPIBasePytatoPyOpenCLArrayContext == "MPIBasePytatoPyOpenCLArrayContext"
MPISingleGridWorkBalancingPytatoArrayContext == "MPISingleGridWorkBalancingPytatoArrayContext"

ExternalClasses ==
    {MeshmodePyOpenCLBase, MeshmodePytatoBase,
     SingleGridWorkBalancingPytatoArrayContext}

\* The base list of each class statement, in the order written.  The imported
\* classes are roots here: their own bases lie outside this module.
Bases(c) ==
    CASE c = PyOpenCLArrayContext -> <<MeshmodePyOpenCLBase>>
      [] c = PytatoPyOpenCLArrayContext -> <<MeshmodePytatoBase>>
      [] c = MPIBasedArrayContext -> <<>>
      [] c = MPIPytatoArrayContextBase -> <<MPIBasedArrayContext>>
      [] c = MPIPyOpenCLArrayContext ->
            <<PyOpenCLArrayContext, MPIBasedArrayContext>>
      [] c = MPIBasePytatoPyOpenCLArrayContext ->
            <<MPIPytatoArrayContextBase, PytatoPyOpenCLArrayContext>>
      [] c = MPISingleGridWorkBalancingPytatoArrayContext ->
            <<MPIPytatoArrayContextBase,
              SingleGridWorkBalancingPytatoArrayContext>>
      [] OTHER -> <<>>

Range(s) == {s[i] : i \in 1..Len(s)}

\* issubclass(c, d)
RECURSIVE IsSubclass(_, _)
IsSubclass(c, d) ==
    \/ c = d
    \/ \E b \in Range(Bases(c)) : IsSubclass(b, d)

\* Python's method resolution order (C3 linearisation) --------------------

\* the lists that are not exhausted
NonEmpty(ls) == SelectSeq(ls, LAMBDA l : Len(l) > 0)

\* c is a good head when it is in the tail of no list
InSomeTail(c, ls) ==
    \E i \in 1..Len(ls) : \E j \in 2..Len(ls[i]) : ls[i][j] = c

\* the index of the first list whose head is a good head (0: none)
RECURSIVE FirstGood(_, _)
FirstGood(ls, i) ==
    IF i > Len(ls) THEN 0
    ELSE IF ~InSomeTail(ls[i][1], ls) THEN i
    ELSE FirstGood(ls, i + 1)

DropHead(c, ls) ==
    [i \in 1..Len(ls) |-> IF ls[i][1] = c THEN Tail(ls[i]) ELSE ls[i]]

RECURSIVE C3Merge(_)
C3Merge(ls) ==
    LET live == NonEmpty(ls) IN
    IF Len(live) = 0 THEN <<>>
    ELSE LET g == FirstGood(live, 1) IN
         IF g = 0 THEN <<>>
         ELSE LET c == live[g][1] IN <<c>> \o C3Merge(DropHead(c, live))

RECURSIVE Mro(_)
Mro(c) ==
    LET bs == Bases(c) IN
    <<c>> \o C3Merge([i \in 1..Len(bs) |-> Mro(bs[i])] \o <<bs>>)

AllClasses ==
    ExternalClasses \cup
    {PyOpenCLArrayContext, PytatoPyOpenCLArrayContext, MPIBasedArrayContext,
     MPIPytatoArrayContextBase, MPIPyOpenCLArrayContext,
     MPIBasePytatoPyOpenCLArrayContext,
     MPISingleGridWorkBalancingPytatoArrayContext}

\* cls.__mro__, computed once per class
MroOf == [c \in AllClasses |-> Mro(c)]

\* the position of c in s from i on (0: none)
RECURSIVE IndexOf(_, _, _)
IndexOf(s, c, i) ==
    IF i > Len(s) THEN 0 ELSE IF s[i] = c THEN i ELSE IndexOf(s, c, i + 1)

\* ------------------------------------------------------------ constructors

Comms == {"commA", "commB"}
Queues == {"queue0"}
Allocators == {None, "pool"}
WaitEventQueueLengths == {None, "len2"}
ForceDeviceScalars == {"False", "True"}

\* an object without the attribute mpi_base_tag
NoTag == 0 - 1

\* An object under construction: its class, the attributes set so far, and
\* whether the imported base class's __init__ has run to completion.
NewObject(cls) ==
    [cls |-> cls, queue |-> Unset, allocator |-> Unset,
     mpi_communicator |-> Unset, mpi_base_tag |-> NoTag,
     wait_event_queue_length |-> Unset, force_device_scalars |-> Unset,
     base_init |-> FALSE]

\* the arguments of a constructor call; Unset where the call passes none
Args(comm, queue, allocator, tag, wl, fds) ==
    [mpi_communicator |-> comm, queue |-> queue, allocator |-> allocator,
     mpi_base_tag |-> tag, wait_event_queue_length |-> wl,
     force_device_scalars |-> fds]

\* classes with an __init__ of their own
HasInit(c) ==
    c \in ExternalClasses
         \cup {PyOpenCLArrayContext, PytatoPyOpenCLArrayContext,
               MPIPytatoArrayContextBase, MPIPyOpenCLArrayContext}

\* warn(...) appends to the warnings of the running operation
Warn(st, w) == [st EXCEPT !.warnings = Append(@, w)]

\* a variant whose `if allocator is None` never fires
WarnIfNoAllocatorSilent(st, allocator) == st

WarnIfNoAllocator(st, allocator) ==
    IF allocator = None THEN Warn(st, NoAllocatorWarning) ELSE st

RECURSIVE NextInit(_, _)
NextInit(mro, i) ==
    IF i > Len(mro) THEN 0 ELSE IF HasInit(mro[i]) THEN i ELSE NextInit(mro, i + 1)

RECURSIVE RunInit(_, _, _)
RECURSIVE SuperInit(_, _, _)

\* meshmode's PyOpenCLArrayContext.__init__(queue, allocator,
\* wait_event_queue_length, force_device_scalars): keeps its arguments
MeshmodePyOpenCLInit(a, st) ==
    [st EXCEPT !.obj.queue = a.queue, !.obj.allocator = a.allocator,
               !.obj.wait_event_queue_length = a.wait_event_queue_length,
               !.obj.force_device_scalars = a.force_device_scalars,
               !.obj.base_init = TRUE]

\* meshmode's lazy contexts' __init__(queue, allocator): keeps its arguments
MeshmodePytatoInit(a, st) ==
    [st EXCEPT !.obj.queue = a.queue, !.obj.allocator = a.allocator,
               !.obj.base_init = TRUE]

\* PyOpenCLArrayContext.__init__
PyOpenCLArrayContextInit(a, st) ==
    SuperInit(PyOpenCLArrayContext,
              Args(Unset, a.queue, a.allocator, NoTag,
                   a.wait_event_queue_length, a.force_device_scalars),
              WarnIfNoAllocator(st, a.allocator))

\* PytatoPyOpenCLArrayContext.__init__
PytatoPyOpenCLArrayContextInit(a, st) ==
    SuperInit(PytatoPyOpenCLArrayContext,
              Args(Unset, a.queue, a.allocator, NoTag, Unset, Unset),
              WarnIfNoAllocator(st, a.allocator))

\* MPIPytatoArrayContextBase.__init__
MPIPytatoArrayContextBaseInit(a, st) ==
    LET s1 == SuperInit(MPIPytatoArrayContextBase,
                        Args(Unset, a.queue, a.allocator, NoTag, Unset, Unset),
                        WarnIfNoAllocator(st, a.allocator))
    IN [s1 EXCEPT !.obj.mpi_communicator = a.mpi_communicator,
                  !.obj.mpi_base_tag = a.mpi_base_tag]

\* MPIPyOpenCLArrayContext.__init__
MPIPyOpenCLArrayContextInit(a, st) ==
    LET s1 == SuperInit(MPIPyOpenCLArrayContext,
                        Args(Unset, a.queue, a.allocator, NoTag,
                             a.wait_event_queue_length, a.force_device_scalars),
                        st)
    IN [s1 EXCEPT !.obj.mpi_communicator = a.mpi_communicator]

\* the __init__ defined by class c, run on the object under construction
RunInit(c, a, st) ==
    CASE c = PyOpenCLArrayContext -> PyOpenCLArrayContextInit(a, st)
      [] c = PytatoPyOpenCLArrayContext -> PytatoPyOpenCLArrayContextInit(a, st)
      [] c = MPIPytatoArrayContextBase -> MPIPytatoArrayContextBaseInit(a, st)
      [] c = MPIPyOpenCLArrayContext -> MPIPyOpenCLArrayContextInit(a, st)
      [] c = MeshmodePyOpenCLBase -> MeshmodePyOpenCLInit(a, st)
      [] OTHER -> MeshmodePytatoInit(a, st)

\* super().__init__(...) written in class `after`: the next __init__ in the
\* MRO of the object's own class
SuperInit(after, a, st) ==
    LET mro == MroOf[st.obj.cls]
        n == NextInit(mro, IndexOf(mro, after, 1) + 1)
    IN IF n = 0 THEN st ELSE RunInit(mro[n], a, st)

\* cls(...): the new object, the arguments it was called with and the
\* warnings its construction emitted
Construct(cls, a) ==
    LET mro == MroOf[cls]
        n == NextInit(mro, 1)
        st0 == [obj |-> NewObject(cls), args |-> a, warnings |-> <<>>]
    IN IF n = 0 THEN st0 ELSE RunInit(mro[n], a, st0)

\* ------------------------------------------------------------------ state

VARIABLES
    meshmode_has_sgwb,   \* meshmode.array_context has SingleGridWorkBalancing...
    loopy_has_idis,      \* loopy.codegen.result has get_idis_for_kernel
    loaded,              \* the module body has run
    HAVE_SINGLE_GRID_WORK_BALANCING,
    MPIPytatoArrayContext,
    namespace,           \* the class names bound in the module
    import_warnings,     \* the warnings the module body emitted
    calls,               \* the calls of get_reasonable_array_context_class
    ctxs,                \* the array contexts constructed so far
    init_log,            \* each context's constructor arguments and warnings
    clone_of,            \* for each context, the one clone() made it from (0: none)
    compiled,            \* the _DistributedCompiledFunction objects made so far
    tag_log,             \* per compilation: context, base tag passed and returned
    inflight,            \* the _dag_to_compiled_func call in progress
    assert_failed,       \* an assert statement failed
    last_call            \* the latest call of a compiled function

vars ==
    <<meshmode_has_sgwb, loopy_has_idis, loaded,
      HAVE_SINGLE_GRID_WORK_BALANCING, MPIPytatoArrayContext, namespace,
      import_warnings, calls, ctxs, init_log, clone_of, compiled, tag_log,
      inflight, assert_failed, last_call>>

envVars == <<meshmode_has_sgwb, loopy_has_idis>>
moduleVars ==
    <<loaded, HAVE_SINGLE_GRID_WORK_BALANCING, MPIPytatoArrayContext, namespace,
      import_warnings>>
ctxVars == <<ctxs, init_log, clone_of>>
compileVars == <<compiled, tag_log, inflight, assert_failed, last_call>>

NoInflight == [active |-> FALSE]
NoCall == [made |-> FALSE]

Init ==
    /\ meshmode_has_sgwb \in BOOLEAN
    /\ loopy_has_idis \in BOOLEAN
    /\ loaded = FALSE
    /\ HAVE_SINGLE_GRID_WORK_BALANCING = FALSE
    /\ MPIPytatoArrayContext = Unbound
    /\ namespace = {}
    /\ import_warnings = <<>>
    /\ calls = <<>>
    /\ ctxs = <<>>
    /\ init_log = <<>>
    /\ clone_of = <<>>
    /\ compiled = <<>>
    /\ tag_log = <<>>
    /\ inflight = NoInflight
    /\ assert_failed = FALSE
    /\ last_call = NoCall

\* ---------------------------------------------------------- module import

\* a variant without the inner loopy check
ProbeWithoutLoopyCheck(meshmode_ok, loopy_ok) ==
    [have |-> meshmode_ok, warnings |-> <<>>]

\* a variant whose inner except clause only clears the flag
ProbeSilentOnMismatch(meshmode_ok, loopy_ok) ==
    [have |-> meshmode_ok /\ loopy_ok, warnings |-> <<>>]

\* the try/except ImportError probe at the top of the module
ProbeSingleGridWorkBalancing(meshmode_ok, loopy_ok) ==
    IF meshmode_ok
    THEN IF loopy_ok
         THEN [have |-> TRUE, warnings |-> <<>>]
         ELSE [have |-> FALSE, warnings |-> <<MismatchWarning>>]
    ELSE [have |-> FALSE, warnings |-> <<>>]

\* the class statements of the module, and the conditional one
ModuleNames(meshmode_ok, have) ==
    {PyOpenCLArrayContext, PytatoPyOpenCLArrayContext, MPIBasedArrayContext,
     MPIPytatoArrayContextBase, MPIPyOpenCLArrayContext,
     MPIBasePytatoPyOpenCLArrayContext}
    \cup (IF meshmode_ok THEN {SingleGridWorkBalancingPytatoArrayContext} ELSE {})
    \cup (IF have THEN {MPISingleGridWorkBalancingPytatoArrayContext} ELSE {})

MPIPytatoArrayContextAlias(have) ==
    IF have THEN MPISingleGridWorkBalancingPytatoArrayContext
    ELSE MPIBasePytatoPyOpenCLArrayContext

ImportModule ==
    /\ ~loaded
    /\ LET p == ProbeSingleGridWorkBalancing(meshmode_has_sgwb, loopy_has_idis) IN
       /\ HAVE_SINGLE_GRID_WORK_BALANCING' = p.have
       /\ import_warnings' = p.warnings
       /\ namespace' = ModuleNames(meshmode_has_sgwb, p.have)
       /\ MPIPytatoArrayContext' = MPIPytatoArrayContextAlias(p.have)
    /\ loaded' = TRUE
    /\ UNCHANGED <<envVars, calls, ctxVars, compileVars>>

\* ------------------------------------------------------- the class factory

NameError == "NameError"
UnboundLocalError == "UnboundLocalError"

\* reading a module-level name
Lookup(ns, name) == IF name \in ns THEN name ELSE NameError

\* a variant whose eager branch does not look at distributed
get_reasonable_ignoring_distributed(lazy, distributed, have, ns) ==
    [value |-> IF lazy
               THEN IF have THEN MPISingleGridWorkBalancingPytatoArrayContext
                    ELSE MPIBasePytatoPyOpenCLArrayContext
               ELSE PyOpenCLArrayContext,
     raised |-> None,
     warnings |-> IF lazy /\ ~have THEN <<NoDeviceParallelWarning>> ELSE <<>>]

\* get_reasonable_array_context_class(lazy, distributed), statement by
\* statement: actx_class starts unbound and each assignment overwrites it
get_reasonable_array_context_class(lazy, distributed, have, ns) ==
    LET w == IF lazy /\ ~have THEN <<NoDeviceParallelWarning>> ELSE <<>>
        a1 == IF lazy /\ ~distributed
              THEN IF have
                   THEN Lookup(ns, SingleGridWorkBalancingPytatoArrayContext)
                   ELSE Lookup(ns, PytatoPyOpenCLArrayContext)
              ELSE Unbound
        a2 == IF lazy
              THEN IF a1 = NameError THEN NameError
                   ELSE IF have
                   THEN Lookup(ns, MPISingleGridWorkBalancingPytatoArrayContext)
                   ELSE Lookup(ns, MPIBasePytatoPyOpenCLArrayContext)
              ELSE IF distributed
                   THEN Lookup(ns, MPIPyOpenCLArrayContext)
                   ELSE Lookup(ns, PyOpenCLArrayContext)
    IN [value |-> IF a2 \in {NameError, Unbound} THEN None ELSE a2,
        raised |-> IF a2 = NameError THEN NameError
                   ELSE IF a2 = Unbound THEN UnboundLocalError ELSE None,
        warnings |-> w]

GetReasonableArrayContextClass(lazy, distributed) ==
    /\ loaded
    /\ Len(calls) < MaxFactoryCalls
    /\ LET r == get_reasonable_array_context_class(
                    lazy, distributed, HAVE_SINGLE_GRID_WORK_BALANCING, namespace)
       IN calls' = Append(calls, [lazy |-> lazy, distributed |-> distributed,
                                  value |-> r.value, raised |-> r.raised,
                                  warnings |-> r.warnings])
    /\ UNCHANGED <<envVars, moduleVars, ctxVars, compileVars>>

NextFactory ==
    \/ ImportModule
    \/ \E lazy \in BOOLEAN, distributed \in BOOLEAN :
          GetReasonableArrayContextClass(lazy, distributed)

SpecFactory == Init /\ [][NextFactory]_vars

\* ------------------------------------------------- construction and clone

ConstructibleClasses ==
    {PyOpenCLArrayContext, PytatoPyOpenCLArrayContext, MPIPyOpenCLArrayContext,
     MPIBasePytatoPyOpenCLArrayContext,
     MPISingleGridWorkBalancingPytatoArrayContext} \cap namespace

InitialBaseTags == 0..MaxInitialBaseTag

\* the argument lists each constructor's signature admits
ArgsFor(cls) ==
    IF cls = PyOpenCLArrayContext THEN
        {Args(Unset, q, al, NoTag, wl, fds) :
            q \in Queues, al \in Allocators,
            wl \in WaitEventQueueLengths, fds \in ForceDeviceScalars}
    ELSE IF cls = PytatoPyOpenCLArrayContext THEN
        {Args(Unset, q, al, NoTag, Unset, Unset) :
            q \in Queues, al \in Allocators}
    ELSE IF cls = MPIPyOpenCLArrayContext THEN
        {Args(c, q, al, NoTag, wl, fds) :
            c \in Comms, q \in Queues, al \in Allocators,
            wl \in WaitEventQueueLengths, fds \in ForceDeviceScalars}
    ELSE
        {Args(c, q, al, t, Unset, Unset) :
            c \in Comms, q \in Queues, al \in Allocators, t \in InitialBaseTags}

ConstructContext(cls, a) ==
    /\ loaded
    /\ ~inflight.active
    /\ Len(ctxs) < MaxCtx
    /\ cls \in ConstructibleClasses
    /\ LET r == Construct(cls, a) IN
       /\ ctxs' = Append(ctxs, r.obj)
       /\ init_log' = Append(init_log, [args |-> r.args,
                                         warnings |-> r.warnings])
    /\ clone_of' = Append(clone_of, 0)
    /\ UNCHANGED <<envVars, moduleVars, calls, compileVars>>

\* MPIPytatoArrayContextBase.clone
MPIPytatoArrayContextBaseClone(self) ==
    Construct(self.cls,
              Args(self.mpi_communicator, self.queue, self.allocator,
                   self.mpi_base_tag, Unset, Unset))

\* a variant that forwards no force_device_scalars (the default is False)
CloneDroppingForceDeviceScalars(self) ==
    Construct(self.cls,
              Args(self.mpi_communicator, self.queue, self.allocator, NoTag,
                   self.wait_event_queue_length, "False"))

\* MPIPyOpenCLArrayContext.clone
MPIPyOpenCLArrayContextClone(self) ==
    Construct(self.cls,
              Args(self.mpi_communicator, self.queue, self.allocator, NoTag,
                   self.wait_event_queue_length, self.force_device_scalars))

\* self.clone() on a distributed context: the clone() its class inherits
Clone(self) ==
    IF IsSubclass(self.cls, MPIPyOpenCLArrayContext)
    THEN MPIPyOpenCLArrayContextClone(self)
    ELSE MPIPytatoArrayContextBaseClone(self)

CloneContext(i) ==
    /\ ~inflight.active
    /\ Len(ctxs) < MaxCtx
    /\ IsSubclass(ctxs[i].cls, MPIBasedArrayContext)
    /\ LET r == Clone(ctxs[i]) IN
       /\ ctxs' = Append(ctxs, r.obj)
       /\ init_log' = Append(init_log, [args |-> r.args,
                                         warnings |-> r.warnings])
    /\ clone_of' = Append(clone_of, i)
    /\ UNCHANGED <<envVars, moduleVars, calls, compileVars>>

NextConstruct ==
    \/ ImportModule
    \/ \E cls \in ConstructibleClasses : \E a \in ArgsFor(cls) :
          ConstructContext(cls, a)
    \/ \E i \in DOMAIN ctxs : CloneContext(i)

SpecConstruct == Init /\ [][NextConstruct]_vars

\* ------------------------------------------------ distributed compilation

\* The traced functions handed to _dag_to_compiled_func: the named arrays,
\* the id-to-name mappings and the output template.
\* comm_tags are the symbolic tags of the sends and receives in the arrays.
TracedFunctions ==
    {[dict_of_named_arrays |-> [names |-> {"_out0"}, comm_tags |-> {},
                                deduplicated |-> FALSE],
      input_id_to_name_in_program |-> [arg0 |-> "_in0"],
      output_id_to_name_in_program |-> [k0 |-> "_out0"],
      output_template |-> [k0 |-> "leaf"]],
     [dict_of_named_arrays |-> [names |-> {"_out0", "_out1"},
                                 comm_tags |-> {"tagA", "tagB"},
                                 deduplicated |-> FALSE],
      input_id_to_name_in_program |-> [arg0 |-> "_in0"],
      output_id_to_name_in_program |-> [k0 |-> "_out1", k1 |-> "_out0"],
      output_template |-> [k0 |-> "leaf", k1 |-> "leaf"]]}

\* pytato.transform.deduplicate_data_wrappers
DeduplicateDataWrappers(d) == [d EXCEPT !.deduplicated = TRUE]

\* pytato.find_distributed_partition: one part for a single output; with
\* more outputs, a first part feeding a second one through "_dist_ph0".
\* The communication tags of the result are symbolic.
FindDistributedPartition(d) ==
    [parts |-> IF Cardinality(d.names) = 1
               THEN [p0 |-> [pid |-> "p0", output_names |-> d.names]]
               ELSE [p0 |-> [pid |-> "p0", output_names |-> {"_dist_ph0"}],
                     p1 |-> [pid |-> "p1", output_names |-> d.names]],
     var_name_to_result |->
        [v \in d.names \cup (IF Cardinality(d.names) = 1 THEN {}
                             ELSE {"_dist_ph0"}) |-> <<"expr", v>>],
     comm_tags |-> d.comm_tags,
     numbered |-> FALSE,
     sym_tag_to_int_tag |-> [t \in {} |-> 0],
     comm |-> Unset]

\* the order number_distributed_tags walks the symbolic tags in
SymTagOrder == <<"tagA", "tagB">>

\* pytato.distributed.number_distributed_tags(comm, partition, base_tag):
\* the symbolic tags (those of every rank of the communicator run the same
\* traced function) are given the integers from base_tag on, in order;
\* returns the partition with integer tags and the next free tag.
NumberDistributedTags(comm, partition, base_tag) ==
    LET all_tags == partition.comm_tags
        Pos(t) == Cardinality({u \in all_tags :
                     IndexOf(SymTagOrder, u, 1) < IndexOf(SymTagOrder, t, 1)})
    IN [partition |->
            [partition EXCEPT !.numbered = TRUE,
                              !.sym_tag_to_int_tag =
                                  [t \in all_tags |-> base_tag + Pos(t)],
                              !.comm = comm],
        new_base_tag |-> base_tag + Cardinality(all_tags)]

\* the integer tags a partition communicates with
IntTags(partition) ==
    {partition.sym_tag_to_int_tag[t] : t \in DOMAIN partition.sym_tag_to_int_tag}

\* self._dag_to_transformed_loopy_prg(d)[0]: the program bound to d
DagToTransformedLoopyPrg(d) == [outputs |-> d]

\* the first half of _dag_to_compiled_func: up to the return of
\* number_distributed_tags
DagToCompiledFuncNumbering(actx, f) ==
    LET dict_of_named_arrays == DeduplicateDataWrappers(f.dict_of_named_arrays)
        distributed_partition == FindDistributedPartition(dict_of_named_arrays)
        prev_mpi_base_tag == actx.mpi_base_tag
        r == NumberDistributedTags(actx.mpi_communicator, distributed_partition,
                                   prev_mpi_base_tag)
    IN [prev_mpi_base_tag |-> prev_mpi_base_tag,
        distributed_partition |-> r.partition,
        new_mpi_base_tag |-> r.new_base_tag]

\* a variant that never writes the new base tag back
StoreBaseTagSkipped(cs, i, new_mpi_base_tag) == cs

\* self.actx.mpi_base_tag = _new_mpi_base_tag
StoreBaseTag(cs, i, new_mpi_base_tag) ==
    [cs EXCEPT ![i].mpi_base_tag = new_mpi_base_tag]

\* a variant that compiles every result of the partition into each part
PartIdToPrgAllResults(distributed_partition) ==
    LET parts == distributed_partition.parts IN
    [pid \in {parts[k].pid : k \in DOMAIN parts} |->
        DagToTransformedLoopyPrg(distributed_partition.var_name_to_result)]

\* the loop over distributed_partition.parts.values()
PartIdToPrg(distributed_partition) ==
    LET parts == distributed_partition.parts
        pids == {parts[k].pid : k \in DOMAIN parts}
        PartOf(pid) == CHOOSE k \in DOMAIN parts : parts[k].pid = pid
    IN [pid \in pids |->
          DagToTransformedLoopyPrg(
             [var_name \in parts[PartOf(pid)].output_names |->
                 distributed_partition.var_name_to_result[var_name]])]

\* the _DistributedCompiledFunction returned
DistributedCompiledFunction(i, distributed_partition, f) ==
    [actx |-> i,
     distributed_partition |-> distributed_partition,
     part_id_to_prg |-> PartIdToPrg(distributed_partition),
     input_id_to_name_in_program |-> f.input_id_to_name_in_program,
     output_id_to_name_in_program |-> f.output_id_to_name_in_program,
     output_template |-> f.output_template]

CompileBegin(i, f) ==
    /\ ~inflight.active
    /\ Len(compiled) < MaxCompiles
    /\ IsSubclass(ctxs[i].cls, MPIPytatoArrayContextBase)
    /\ LET r == DagToCompiledFuncNumbering(ctxs[i], f) IN
       inflight' = [active |-> TRUE, actx |-> i, f |-> f,
                    prev_mpi_base_tag |-> r.prev_mpi_base_tag,
                    distributed_partition |-> r.distributed_partition,
                    new_mpi_base_tag |-> r.new_mpi_base_tag]
    /\ UNCHANGED <<envVars, moduleVars, calls, ctxVars, compiled, tag_log,
                   assert_failed, last_call>>

CompileEnd ==
    /\ inflight.active
    /\ inflight' = NoInflight
    /\ IF inflight.prev_mpi_base_tag = ctxs[inflight.actx].mpi_base_tag
       THEN /\ ctxs' = StoreBaseTag(ctxs, inflight.actx,
                                    inflight.new_mpi_base_tag)
            /\ compiled' = Append(compiled,
                  DistributedCompiledFunction(
                     inflight.actx, inflight.distributed_partition, inflight.f))
            /\ tag_log' = Append(tag_log,
                  [actx |-> inflight.actx, ctx_count |-> Len(ctxs),
                   base_tag |-> inflight.prev_mpi_base_tag,
                   new_base_tag |-> inflight.new_mpi_base_tag])
            /\ UNCHANGED assert_failed
       ELSE /\ assert_failed' = TRUE
            /\ UNCHANGED <<ctxs, compiled, tag_log>>
    /\ UNCHANGED <<envVars, moduleVars, calls, init_log, clone_of, last_call>>

\* ------------------------------------------- calling a compiled function

CallArgs == {"x"}

\* arraycontext's _args_to_cl_buffers: program input name -> buffer
ArgsToClBuffers(input_id_to_name_in_program, arg_id_to_arg) ==
    [nm \in {input_id_to_name_in_program[id] :
                id \in DOMAIN input_id_to_name_in_program} |->
        arg_id_to_arg[CHOOSE id \in DOMAIN input_id_to_name_in_program :
                         input_id_to_name_in_program[id] = nm]]

\* pytato.distributed.execute_distributed_partition: a frozen array for
\* every result name of the partition
ExecuteDistributedPartition(partition, prgs, queue, comm, allocator, input_args) ==
    [nm \in DOMAIN partition.var_name_to_result |->
        [name |-> nm, input_args |-> input_args, frozen |-> TRUE]]

\* actx.thaw
Thaw(a) == [a EXCEPT !.frozen = FALSE]

\* a variant that hands back the frozen arrays
CallWithoutThaw(self, actx, arg_id_to_arg) ==
    LET input_args_for_prg ==
            ArgsToClBuffers(self.input_id_to_name_in_program, arg_id_to_arg)
        out_dict ==
            ExecuteDistributedPartition(
                self.distributed_partition, self.part_id_to_prg,
                actx.queue, actx.mpi_communicator, actx.allocator,
                input_args_for_prg)
    IN [executed |-> [distributed_partition |-> self.distributed_partition,
                      part_id_to_prg |-> self.part_id_to_prg,
                      queue |-> actx.queue,
                      mpi_communicator |-> actx.mpi_communicator,
                      allocator |-> actx.allocator,
                      input_args |-> input_args_for_prg],
        result |-> [keys \in DOMAIN self.output_template |->
                       out_dict[self.output_id_to_name_in_program[keys]]]]

\* _DistributedCompiledFunction.__call__
DistributedCompiledFunctionCall(self, actx, arg_id_to_arg) ==
    LET input_args_for_prg ==
            ArgsToClBuffers(self.input_id_to_name_in_program, arg_id_to_arg)
        out_dict ==
            ExecuteDistributedPartition(
                self.distributed_partition, self.part_id_to_prg,
                actx.queue, actx.mpi_communicator, actx.allocator,
                input_args_for_prg)
        to_output_template(keys, leaf) ==
            Thaw(out_dict[self.output_id_to_name_in_program[keys]])
    IN [executed |-> [distributed_partition |-> self.distributed_partition,
                      part_id_to_prg |-> self.part_id_to_prg,
                      queue |-> actx.queue,
                      mpi_communicator |-> actx.mpi_communicator,
                      allocator |-> actx.allocator,
                      input_args |-> input_args_for_prg],
        \* rec_keyed_map_array_container(to_output_template, template): the
        \* template's keys, each leaf replaced by the function's value
        result |-> [keys \in DOMAIN self.output_template |->
                       to_output_template(keys, self.output_template[keys])]]

CallCompiled(k, x) ==
    /\ ~inflight.active
    /\ LET self == compiled[k]
           r == DistributedCompiledFunctionCall(self, ctxs[self.actx],
                                                [arg0 |-> x])
       IN last_call' = [made |-> TRUE, func |-> k, arg |-> x,
                        executed |-> r.executed, result |-> r.result]
    /\ UNCHANGED <<envVars, moduleVars, calls, ctxVars, compiled, tag_log,
                   inflight, assert_failed>>

\* the contexts compiled on: MPIPytatoArrayContext(commA, queue,
\* mpi_base_tag=0 or 1, allocator=pool)
CompileArgs ==
    {a \in ArgsFor(MPIPytatoArrayContext) :
        /\ a.allocator # None
        /\ a.mpi_communicator = "commA"
        /\ a.mpi_base_tag \in {0, 1}}

NextCompile ==
    \/ ImportModule
    \/ \E a \in CompileArgs : ConstructContext(MPIPytatoArrayContext, a)
    \/ \E i \in DOMAIN ctxs : CloneContext(i)
    \/ \E i \in DOMAIN ctxs : \E f \in TracedFunctions : CompileBegin(i, f)
    \/ CompileEnd
    \/ \E k \in DOMAIN compiled : \E x \in CallArgs : CallCompiled(k, x)

\* The compilation steps do not read the import probe beyond the class it
\* selects: start from the installations whose two branches agree.
InitCompile == Init /\ (meshmode_has_sgwb <=> loopy_has_idis)

SpecCompile == InitCompile /\ [][NextCompile]_vars

\* ----------------------------------------------------------------- claims

\* a lazy (Pytato-based) context class
IsLazyClass(c) ==
    \/ IsSubclass(c, MeshmodePytatoBase)
    \/ IsSubclass(c, SingleGridWorkBalancingPytatoArrayContext)
    \/ IsSubclass(c, MPIPytatoArrayContextBase)

EagerClasses == {PyOpenCLArrayContext, MPIPyOpenCLArrayContext}

Emitted(w, ws) == \E i \in DOMAIN ws : ws[i] = w

Disjoint(S, T) == S \cap T = {}

MaxOf(S) == CHOOSE x \in S : \A y \in S : y <= x

\* C1: every call of get_reasonable_array_context_class returns a class, and
\* that class is a subclass of MPIBasedArrayContext if and only if
\* distributed is true.
C1_DistributedIffMPIBased ==
    \A k \in DOMAIN calls :
        /\ calls[k].raised = None
        /\ IsSubclass(calls[k].value, MPIBasedArrayContext) <=> calls[k].distributed

\* C2: every call returns a class (nothing is raised); with lazy false it is
\* MPIPyOpenCLArrayContext for distributed and PyOpenCLArrayContext
\* otherwise; with lazy true it is a lazy class and neither eager class.
C2_LazySelectsClass ==
    \A k \in DOMAIN calls :
        /\ calls[k].raised = None
        /\ calls[k].value \in namespace
        /\ ~calls[k].lazy =>
              calls[k].value = IF calls[k].distributed
                               THEN MPIPyOpenCLArrayContext
                               ELSE PyOpenCLArrayContext
        /\ calls[k].lazy =>
              /\ IsLazyClass(calls[k].value)
              /\ calls[k].value \notin EagerClasses

C2_Witness ==
    /\ \E k \in DOMAIN calls : calls[k].lazy /\ calls[k].distributed
    /\ \E k \in DOMAIN calls : ~calls[k].lazy /\ calls[k].distributed
    /\ \E k \in DOMAIN calls : ~calls[k].lazy /\ ~calls[k].distributed

\* C3: once the module is loaded the flag is true exactly when both imports
\* succeeded, MPIPytatoArrayContext names the single-grid class when the flag
\* is true and MPIBasePytatoPyOpenCLArrayContext otherwise, a lazy call
\* returns a single-grid-work-balancing class iff the flag is true, and a
\* call warns 'No device-parallel actx available' iff lazy and not the flag.
C3_DeviceParallelFollowsFlag ==
    loaded =>
        /\ HAVE_SINGLE_GRID_WORK_BALANCING <=>
              (meshmode_has_sgwb /\ loopy_has_idis)
        /\ MPIPytatoArrayContext =
              IF HAVE_SINGLE_GRID_WORK_BALANCING
              THEN MPISingleGridWorkBalancingPytatoArrayContext
              ELSE MPIBasePytatoPyOpenCLArrayContext
        /\ \A k \in DOMAIN calls :
              /\ calls[k].lazy =>
                    (IsSubclass(calls[k].value,
                                SingleGridWorkBalancingPytatoArrayContext)
                       <=> HAVE_SINGLE_GRID_WORK_BALANCING)
              /\ Emitted(NoDeviceParallelWarning, calls[k].warnings) <=>
                    (calls[k].lazy /\ ~HAVE_SINGLE_GRID_WORK_BALANCING)

C3_Witness ==
    /\ loaded
    /\ meshmode_has_sgwb /\ ~loopy_has_idis
    /\ \E k \in DOMAIN calls :
          calls[k].lazy /\ Emitted(NoDeviceParallelWarning, calls[k].warnings)
    /\ \E k \in DOMAIN calls : ~calls[k].lazy

\* C4: a context constructed with allocator=None got the 'No memory
\* allocator specified' warning, and its base class initialisation still ran
\* to completion with allocator None; one constructed with an allocator got
\* no such warning.
C4_MissingAllocatorWarns ==
    \A i \in DOMAIN ctxs :
        /\ Emitted(NoAllocatorWarning, init_log[i].warnings) <=>
              (init_log[i].args.allocator = None)
        /\ ctxs[i].base_init
        /\ ctxs[i].allocator = init_log[i].args.allocator

C4_Witness ==
    /\ \E i \in DOMAIN ctxs :
          /\ ctxs[i].cls = MPIBasePytatoPyOpenCLArrayContext
          /\ init_log[i].args.allocator = None
          /\ ctxs[i].base_init
    /\ \E i \in DOMAIN ctxs :
          /\ ctxs[i].cls = MPIPyOpenCLArrayContext
          /\ init_log[i].args.allocator # None

\* C5 as stated: every context constructed while meshmode has the
\* single-grid class and loopy lacks get_idis_for_kernel got the 'branches
\* are mismatched' warning at its construction.
C5_MismatchWarnedAtConstruction ==
    \A i \in DOMAIN ctxs :
        (meshmode_has_sgwb /\ ~loopy_has_idis) =>
            Emitted(MismatchWarning, init_log[i].warnings)

\* C5 as amended: the 'branches are mismatched' warning is emitted when the
\* module is imported, exactly in the mismatched configuration; no context
\* exists before the import, no construction emits the warning, and every
\* construction completes.
C5_MismatchWarnedAtImport ==
    /\ loaded =>
          (Emitted(MismatchWarning, import_warnings) <=>
              (meshmode_has_sgwb /\ ~loopy_has_idis))
    /\ ~loaded => (ctxs = <<>> /\ import_warnings = <<>>)
    /\ \A i \in DOMAIN ctxs :
          /\ ~Emitted(MismatchWarning, init_log[i].warnings)
          /\ ctxs[i].base_init

C5_Witness ==
    /\ meshmode_has_sgwb /\ ~loopy_has_idis
    /\ Emitted(MismatchWarning, import_warnings)
    /\ Len(ctxs) >= 1

\* the compilations on context i, in order
CompilesOn(i) == {k \in DOMAIN tag_log : tag_log[k].actx = i}

\* the tag range of compilation k
TagsOf(k) == IntTags(compiled[k].distributed_partition)

\* C6: no assertion fails; a compilation in progress was given the
\* context's current base tag; each finished compilation got the tags from
\* the base tag it passed up to the one returned; it passed the base tag the
\* previous compilation on its context returned; the context holds the base
\* tag its latest compilation returned; and no two compilations on one
\* context have a tag in common.
C6_BaseTagThreaded ==
    /\ ~assert_failed
    /\ Len(tag_log) = Len(compiled)
    /\ inflight.active =>
          inflight.prev_mpi_base_tag = ctxs[inflight.actx].mpi_base_tag
    /\ \A k \in DOMAIN tag_log :
          /\ compiled[k].actx = tag_log[k].actx
          /\ TagsOf(k) = tag_log[k].base_tag .. (tag_log[k].new_base_tag - 1)
          /\ LET before == {j \in CompilesOn(tag_log[k].actx) : j < k} IN
             before # {} => tag_log[k].base_tag = tag_log[MaxOf(before)].new_base_tag
    /\ \A i \in DOMAIN ctxs :
          CompilesOn(i) # {} =>
              ctxs[i].mpi_base_tag = tag_log[MaxOf(CompilesOn(i))].new_base_tag
    /\ \A k, l \in DOMAIN tag_log :
          (k # l /\ tag_log[k].actx = tag_log[l].actx) =>
              Disjoint(TagsOf(k), TagsOf(l))

C6_Witness ==
    \E k, l \in DOMAIN tag_log :
        /\ k < l
        /\ tag_log[k].actx = tag_log[l].actx
        /\ TagsOf(k) # {}
        /\ TagsOf(l) # {}

\* C8: a compilation on a context made after that context was cloned, and a
\* compilation on the clone, have no tag in common.
C8_TagsUniqueAcrossClones ==
    \A k, l \in DOMAIN tag_log :
        (/\ clone_of[tag_log[l].actx] = tag_log[k].actx
         /\ tag_log[k].ctx_count >= tag_log[l].actx
         /\ ctxs[tag_log[k].actx].mpi_communicator
               = ctxs[tag_log[l].actx].mpi_communicator)
        => Disjoint(TagsOf(k), TagsOf(l))

\* C9: each compiled function stores the partition with integer tags, holds
\* one program per part of it, keyed by the part's pid, and each program is
\* generated from that part's output_names looked up in var_name_to_result.
C9_OneProgramPerPart ==
    \A k \in DOMAIN compiled :
        LET fn == compiled[k]
            dp == fn.distributed_partition
        IN /\ dp.numbered
           /\ DOMAIN dp.sym_tag_to_int_tag = dp.comm_tags
           /\ dp.comm = ctxs[fn.actx].mpi_communicator
           /\ DOMAIN fn.part_id_to_prg = {dp.parts[x].pid : x \in DOMAIN dp.parts}
           /\ \A x \in DOMAIN dp.parts :
                 LET prg == fn.part_id_to_prg[dp.parts[x].pid] IN
                 /\ DOMAIN prg.outputs = dp.parts[x].output_names
                 /\ \A v \in dp.parts[x].output_names :
                       prg.outputs[v] = dp.var_name_to_result[v]

C9_Witness ==
    \E k \in DOMAIN compiled :
        /\ Cardinality(DOMAIN compiled[k].part_id_to_prg) = 2
        /\ compiled[k].distributed_partition.comm_tags # {}

\* C7: a step that clones a context appends an object of the same class with
\* the same mpi_communicator, queue and allocator, the same mpi_base_tag
\* for a lazy context and the same wait_event_queue_length and
\* force_device_scalars for an MPIPyOpenCLArrayContext, and changes no
\* context that existed before.
C7_CloneForwards ==
    [][(Len(ctxs') = Len(ctxs) + 1 /\ clone_of'[Len(ctxs')] # 0) =>
          LET o == ctxs[clone_of'[Len(ctxs')]]
              c == ctxs'[Len(ctxs')]
          IN /\ c.cls = o.cls
             /\ c.mpi_communicator = o.mpi_communicator
             /\ c.queue = o.queue
             /\ c.allocator = o.allocator
             /\ IsSubclass(o.cls, MPIPytatoArrayContextBase) =>
                   c.mpi_base_tag = o.mpi_base_tag
             /\ IsSubclass(o.cls, MPIPyOpenCLArrayContext) =>
                   /\ c.wait_event_queue_length = o.wait_event_queue_length
                   /\ c.force_device_scalars = o.force_device_scalars
             /\ \A i \in DOMAIN ctxs : ctxs'[i] = ctxs[i]]_vars

C7_Witness ==
    /\ \E j \in DOMAIN ctxs :
          /\ clone_of[j] # 0
          /\ ctxs[j].cls = MPIPyOpenCLArrayContext
          /\ ctxs[j].force_device_scalars = "True"
          /\ ctxs[j].wait_event_queue_length # None

\* C10: a step that calls a compiled function changes no context, no
\* compiled function and no base tag; it executes the function's partition
\* and programs with its context's queue, communicator and allocator, and
\* returns a container with the template's keys whose leaf at each key is
\* the thawed result named output_id_to_name_in_program[key].  A step that
\* changes a context's mpi_base_tag is the end of a compilation.
C10_CallChangesNothing ==
    [][/\ last_call' # last_call =>
             /\ ctxs' = ctxs
             /\ compiled' = compiled
             /\ tag_log' = tag_log
             /\ LET fn == compiled[last_call'.func]
                    actx == ctxs[fn.actx]
                    ex == last_call'.executed
                    res == last_call'.result
                IN /\ ex.distributed_partition = fn.distributed_partition
                   /\ ex.part_id_to_prg = fn.part_id_to_prg
                   /\ ex.queue = actx.queue
                   /\ ex.mpi_communicator = actx.mpi_communicator
                   /\ ex.allocator = actx.allocator
                   /\ DOMAIN res = DOMAIN fn.output_template
                   /\ \A key \in DOMAIN res :
                         /\ res[key].name = fn.output_id_to_name_in_program[key]
                         /\ ~res[key].frozen
       /\ (\E i \in DOMAIN ctxs : ctxs'[i].mpi_base_tag # ctxs[i].mpi_base_tag) =>
             /\ inflight.active /\ ~inflight'.active
             /\ Len(compiled') = Len(compiled) + 1
             /\ last_call' = last_call]_vars

C10_Witness ==
    /\ last_call.made
    /\ Cardinality(DOMAIN last_call.result) = 2
    /\ Len(compiled) = 2
    /\ last_call.func = 1
    /\ \E i \in DOMAIN ctxs : ctxs[i].mpi_base_tag >= 2

====
